---- MODULE Spec2Model ----
(***************************************************************************)
(* A model of bin/xml2lcovutil.py: the translation of a Cobertura-style    *)
(* XML coverage report into an LCOV record stream (class ProcessFile).     *)
(*                                                                         *)
(* Text is modelled as sequences of one-character strings, so that the     *)
(* two regular expressions of process_file and the indentation counter    *)
(* are computed the way the code computes them.  Python's None is the      *)
(* empty sequence <<>> for currentObj and sourceCode (both are only ever   *)
(* tested for truth or subscripted) and 0 for prevLine (line numbers of    *)
(* the model are >= 1, and the code tests prevLine for truth only).        *)
(***************************************************************************)
EXTENDS Integers, Sequences, FiniteSets, TLC

\* Bound: the number of <line> elements one report holds, which is also the
\* number of lines of every source text.
MaxLines == 3

\* Bound: the number of file entries one report holds.
MaxFiles == 2

\* args.tabWidth, the width the run was configured with.
TabWidth == 2

-----------------------------------------------------------------------------
(* Characters and text helpers                                             *)

\* Python's \s for str patterns, restricted to the ASCII whitespace.
Whitespace == {" ", "\t", "\n", "\r", "\f"}

Digits == {"0", "1", "2", "3", "4", "5", "6", "7", "8", "9"}

DigitVal(c) ==
    CASE c = "0" -> 0 [] c = "1" -> 1 [] c = "2" -> 2 [] c = "3" -> 3
      [] c = "4" -> 4 [] c = "5" -> 5 [] c = "6" -> 6 [] c = "7" -> 7
      [] c = "8" -> 8 [] c = "9" -> 9

\* int(s) for a non-empty string of decimal digits.
RECURSIVE IntOf(_)
IntOf(s) ==
    IF Len(s) = 0 THEN 0
    ELSE 10 * IntOf(SubSeq(s, 1, Len(s) - 1)) + DigitVal(s[Len(s)])

\* The length of the longest prefix of s[i..] whose characters are all in cs.
RECURSIVE Run(_, _, _)
Run(s, i, cs) ==
    IF i <= Len(s) /\ s[i] \in cs THEN 1 + Run(s, i + 1, cs) ELSE 0

\* The length of the longest prefix of s[i..] with no character in cs.
RECURSIVE RunNot(_, _, _)
RunNot(s, i, cs) ==
    IF i <= Len(s) /\ s[i] \notin cs THEN 1 + RunNot(s, i + 1, cs) ELSE 0

\* Whether the literal lit occurs in s at position i.
StartsAt(s, i, lit) ==
    /\ i + Len(lit) - 1 <= Len(s)
    /\ \A k \in 1..Len(lit) : s[i + k - 1] = lit[k]

\* str.rstrip(): s without its trailing whitespace.
RECURSIVE RStrip(_)
RStrip(s) ==
    IF Len(s) > 0 /\ s[Len(s)] \in Whitespace
    THEN RStrip(SubSeq(s, 1, Len(s) - 1))
    ELSE s

\* str.find('(') # -1
HasParen(s) == \E i \in 1..Len(s) : s[i] = "("

-----------------------------------------------------------------------------
(* The regular expressions and helpers of process_file                     *)

KwDef == <<"d", "e", "f">>
KwClass == <<"c", "l", "a", "s", "s">>

\* parseLine.search(text) for parseLine = '(\s*)((def|class)\s*([^\( \t]+))?'.
\* The pattern matches at position 0 of any text.  Group 1 is the leading
\* whitespace; groups 2..4 take part when a keyword follows it and, after
\* the whitespace behind the keyword (giving some of it back if need be), at
\* least one character other than '(', ' ' and '\t' follows.
\* The result: g1, has2 (group 2 took part), g3 (keyword), g4 (name).
parseLine(text) ==
    LET n1 == Run(text, 1, Whitespace)
        p == n1 + 1
        kw == IF StartsAt(text, p, KwDef) THEN KwDef
              ELSE IF StartsAt(text, p, KwClass) THEN KwClass
              ELSE <<>>
        q == p + Len(kw)
        nws == Run(text, q, Whitespace)
        \* the whitespace lengths k (greedy: longest first) after which a
        \* name of at least one character starts
        ok == {k \in 0..nws : RunNot(text, q + k, {"(", " ", "\t"}) > 0}
        k == CHOOSE x \in ok : \A y \in ok : y <= x
        nlen == RunNot(text, q + k, {"(", " ", "\t"})
    IN  IF kw # <<>> /\ ok # {}
        THEN [g1 |-> SubSeq(text, 1, n1), has2 |-> TRUE, g3 |-> kw,
              g4 |-> SubSeq(text, q + k, q + k + nlen - 1)]
        ELSE [g1 |-> SubSeq(text, 1, n1), has2 |-> FALSE, g3 |-> <<>>,
              g4 |-> <<>>]

\* Whether count(indent) runs to its end: its assert(c == '\t') holds for
\* every character that is not a space.
CountOk(indent) == \A i \in 1..Len(indent) : indent[i] \in {" ", "\t"}

\* count(indent): a space counts 1, a tab counts args.tabWidth.
RECURSIVE count(_)
count(indent) ==
    IF Len(indent) = 0 THEN 0
    ELSE (IF Head(indent) = " " THEN 1 ELSE TabWidth) + count(Tail(indent))

\* The name stored for a declaration: m.group(4).rstrip(), with '...)'
\* appended when it holds a '(' and does not end in ')'.
ObjName(g4) ==
    LET name == RStrip(g4)
    IN  IF HasParen(name) /\ name[Len(name)] # ")"
        THEN name \o <<".", ".", ".", ")">>
        ELSE name

\* Whether r'\d+\% \((\d+)/(\d+)\)' matches s at position i; the result is
\* <<>> for no match, else <<taken, total>> as the strings of the groups.
MatchConditionAt(s, i) ==
    LET n0 == Run(s, i, Digits)
        \* \d+ may give digits back, but "% (" must follow its last digit
        a == i + n0
        n1 == Run(s, a + 3, Digits)
        b == a + 3 + n1
        n2 == Run(s, b + 1, Digits)
        c == b + 1 + n2
    IN  IF /\ n0 > 0
           /\ StartsAt(s, a, <<"%", " ", "(">>)
           /\ n1 > 0
           /\ StartsAt(s, b, <<"/">>)
           /\ n2 > 0
           /\ StartsAt(s, c, <<")">>)
        THEN <<SubSeq(s, a + 3, b - 1), SubSeq(s, b + 1, c - 1)>>
        ELSE <<>>

\* parseCondition.search(s): the match at the leftmost position that has one.
parseCondition(s) ==
    LET at == {i \in 1..Len(s) : MatchConditionAt(s, i) # <<>>}
    IN  IF at = {} THEN <<>>
        ELSE MatchConditionAt(s, CHOOSE i \in at : \A j \in at : i <= j)

-----------------------------------------------------------------------------
(* Helpers of process_xml_file                                             *)

\* str.split(','): the pieces of s between commas.
RECURSIVE Split(_)
Split(s) ==
    LET n == RunNot(s, 1, {","})
    IN  IF n = Len(s) THEN <<s>>
        ELSE <<SubSeq(s, 1, n)>> \o Split(SubSeq(s, n + 2, Len(s)))

\* fnmatch.fnmatchcase(name, pat) for patterns made of literal characters,
\* '*' and '?': whether pat[j..] matches the whole of name[i..].
RECURSIVE GlobAt(_, _, _, _)
GlobAt(name, i, pat, j) ==
    IF j > Len(pat) THEN i > Len(name)
    ELSE IF pat[j] = "*"
         THEN \E k \in i..(Len(name) + 1) : GlobAt(name, k, pat, j + 1)
    ELSE /\ i <= Len(name)
         /\ pat[j] = "?" \/ pat[j] = name[i]
         /\ GlobAt(name, i + 1, pat, j + 1)

fnmatchcase(name, pat) == GlobAt(name, 1, pat, 1)

\* os.path.join(a, b) on a POSIX system.
PathJoin(a, b) ==
    IF Len(b) > 0 /\ b[1] = "/" THEN b
    ELSE IF Len(a) = 0 \/ a[Len(a)] = "/" THEN a \o b
    ELSE a \o <<"/">> \o b

\* self._excludePatterns, set by __init__ from args.excludePatterns
\* (<<>> is the option left out: it is tested for truth only).
ExcludePatternsOf(a) ==
    IF a.excludePatterns # <<>> THEN Split(a.excludePatterns) ELSE <<>>

\* self._versionScript, set by __init__ from args.version: a script whose
\* name ends in ".pm" is set aside (<<>> is None).
VersionScriptOf(a) ==
    LET v == IF a.version # <<>> THEN Split(a.version) ELSE <<>>
        first == v[1]
    IN  IF v # <<>>
           /\ SubSeq(first, IF Len(first) > 3 THEN Len(first) - 2 ELSE 1,
                     Len(first)) = <<".", "p", "m">>
        THEN <<>>
        ELSE v

\* isExternal of a package name: it starts with '.' and is not '.'.
IsExternal(pkg) == Len(pkg) > 0 /\ pkg[1] = "." /\ pkg # <<".">>

\* Whether a file name matches one of the exclude patterns.
IsExcluded(a, fname) ==
    /\ a.excludePatterns # <<>>
    /\ \E i \in 1..Len(ExcludePatternsOf(a)) :
           fnmatchcase(fname, ExcludePatternsOf(a)[i])

-----------------------------------------------------------------------------
(* The inputs the model draws: reports, source texts, results of the       *)
(* file system and of the version script.  dom names the family of inputs  *)
(* a run draws from; it is fixed when the run starts.                      *)

TxtStmt == <<"x">>
TxtDefF == <<"d", "e", "f", " ", "f", "(", ")", ":">>
TxtClassC == <<"c", "l", "a", "s", "s", " ", "C", ":">>
\* a line indented with a form feed
TxtFormFeed == <<"\f", "x">>
\* the first line of a signature that goes on on the next line
TxtDefOpen == <<"d", "e", "f", " ", "f", "(", "a", ",">>

\* The source lines the derivation is run over: declarations at widths 0
\* and 1, statements at widths 0, 1 and TabWidth, and an unclassifiable one.
DeriveTexts ==
    {TxtDefF, TxtClassC, TxtStmt, <<" ">> \o TxtDefF, <<" ">> \o TxtClassC,
     <<" ">> \o TxtStmt, <<"\t">> \o TxtStmt, TxtFormFeed}

\* A source line that has not been read yet: its text is drawn when the
\* program first reads it (the text of a file is fixed, so drawing it at the
\* first read or when the file is opened gives the same runs).
Unread == <<"UNREAD">>

\* The families of inputs:
\*   lines    every setting of the four flags, lines in any order
\*   branch   branch attributes of every kind
\*   derive   source texts with declarations, lines in increasing order
\*   run      several files, source paths and exclude patterns
\*   version  several files and a version script
\*   methods  method records, with and without the derivation
\*   repeat   the same file entry twice, with the derivation
Families == {"lines", "branch", "derive", "run", "version", "methods",
             "repeat"}

NoExclude == <<>>
NoVersion == <<>>

DomArgs(d) ==
    CASE d = "lines" ->
           [keepGoing : BOOLEAN, checksum : BOOLEAN, isPython : BOOLEAN,
            deriveFunctions : BOOLEAN, excludePatterns : {NoExclude},
            version : {NoVersion}]
      [] d = "branch" ->
           [keepGoing : BOOLEAN, checksum : {FALSE}, isPython : {FALSE},
            deriveFunctions : {FALSE}, excludePatterns : {NoExclude},
            version : {NoVersion}]
      [] d = "derive" ->
           [keepGoing : {TRUE}, checksum : {FALSE}, isPython : {TRUE},
            deriveFunctions : {TRUE}, excludePatterns : {NoExclude},
            version : {NoVersion}]
      [] d = "run" ->
           [keepGoing : BOOLEAN, checksum : {FALSE}, isPython : {FALSE},
            deriveFunctions : {FALSE},
            excludePatterns : {NoExclude, <<"b", "*">>},
            version : {NoVersion}]
      [] d = "version" ->
           [keepGoing : BOOLEAN, checksum : {FALSE}, isPython : {FALSE},
            deriveFunctions : {FALSE}, excludePatterns : {NoExclude},
            version : {<<"v">>, <<"v", ".", "p", "m">>}]
      [] d = "methods" ->
           [keepGoing : {TRUE}, checksum : {FALSE}, isPython : BOOLEAN,
            deriveFunctions : {TRUE}, excludePatterns : {NoExclude},
            version : {NoVersion}]
      [] d = "repeat" ->
           [keepGoing : {TRUE}, checksum : {FALSE}, isPython : {TRUE},
            deriveFunctions : {TRUE}, excludePatterns : {NoExclude},
            version : {NoVersion}]

\* The tags of the first two children of the document's root.
Tags == {"sources", "packages", "other"}
Roots == UNION {[1..n -> Tags] : n \in 0..2}

\* The source paths a report lists.
DomSources(d) ==
    IF d = "run" THEN {<<>>, <<<<"s">>>>, <<<<"s">>, <<"t">>>>}
    ELSE {<<<<".">>>>}

\* The file entries of a report: package name and filename attribute.
DomEntries(d) ==
    IF d = "run"
    THEN [pkg : {<<".">>, <<".", "e">>}, filename : {<<"a">>, <<"b">>}]
    ELSE [pkg : {<<".">>}, filename : {<<"a">>}]

DomMaxFiles(d) ==
    CASE d \in {"run", "version"} -> MaxFiles
      [] d = "repeat" -> 2
      [] OTHER -> 1

\* The <line> elements a report holds at most.
DomMaxLines(d) ==
    CASE d = "derive" -> MaxLines
      [] d = "repeat" -> 2 * (MaxLines - 1)
      [] OTHER -> MaxLines - 1

\* os.path.exists: the source paths (by position) under which a file exists.
DomExists(d, n) == IF d = "run" THEN SUBSET (1..n) ELSE {1..n}

DomTexts(d) ==
    CASE d = "derive" -> DeriveTexts
      [] d = "lines" -> {TxtStmt, TxtDefF, <<" ">> \o TxtDefF, TxtFormFeed}
      [] d = "methods" -> {TxtDefF, <<" ">> \o TxtStmt}
      [] d = "repeat" -> {TxtDefF, TxtDefOpen, <<" ">> \o TxtStmt}
      [] OTHER -> {TxtStmt}

DomLineNos(d) ==
    CASE d = "derive" -> 1..(MaxLines + 1)
      [] d = "lines" -> {1, 2, MaxLines + 1}
      [] d \in {"branch", "methods", "repeat"} -> {1, 2}
      [] OTHER -> {1}

\* Whether the <line> elements of a file come in increasing number order.
DomOrdered(d) == d \in {"derive", "methods", "repeat"}

DomHits(d) ==
    CASE d = "lines" -> {0, 2}
      [] d \in {"derive", "methods", "repeat"} -> {0, 1}
      [] OTHER -> {1}

\* Bound: the largest branch total a condition-coverage attribute carries.
MaxTotal == 2

DigitChar(n) ==
    CASE n = 0 -> "0" [] n = 1 -> "1" [] n = 2 -> "2" [] n = 3 -> "3"
      [] n = 4 -> "4" [] n = 5 -> "5" [] n = 6 -> "6" [] n = 7 -> "7"
      [] n = 8 -> "8" [] n = 9 -> "9"

\* A condition-coverage value as Coverage.py writes it.
CcText(taken, total) ==
    <<"5", "0", "%", " ", "(", DigitChar(taken), "/", DigitChar(total), ")">>

\* The branch and condition-coverage attributes of a <line> element: none,
\* branch="true" without or with a condition-coverage that does not parse,
\* branch="false", and branch="true" with (taken/total) for a total of 0 or
\* MaxTotal and every taken up to it, and with more taken than the total.
\* tuple is the (taken, total) the producer of the report wrote into cc
\* (<<>>: none); the program reads branch and cc only.
NoBranch == [branch |-> "", hascc |-> FALSE, cc |-> <<>>, tuple |-> <<>>]
DomBranch(d) ==
    IF d = "branch"
    THEN {NoBranch,
          [branch |-> "true", hascc |-> FALSE, cc |-> <<>>, tuple |-> <<>>],
          [branch |-> "true", hascc |-> TRUE, cc |-> <<"1", "/", "2">>,
           tuple |-> <<>>],
          [branch |-> "false", hascc |-> TRUE, cc |-> CcText(1, MaxTotal),
           tuple |-> <<1, MaxTotal>>],
          [branch |-> "true", hascc |-> TRUE, cc |-> CcText(0, 0),
           tuple |-> <<0, 0>>],
          [branch |-> "true", hascc |-> TRUE, cc |-> CcText(1, 0),
           tuple |-> <<1, 0>>]}
         \cup {[branch |-> "true", hascc |-> TRUE, cc |-> CcText(t, MaxTotal),
                tuple |-> <<t, MaxTotal>>] : t \in 0..MaxTotal}
    ELSE IF d = "methods"
    THEN {NoBranch,
          [branch |-> "true", hascc |-> TRUE, cc |-> CcText(1, MaxTotal),
           tuple |-> <<1, MaxTotal>>]}
    ELSE {NoBranch}

\* The <line> elements a file of the report may hold.
DomLines(d) ==
    {[number |-> n, hits |-> h, branch |-> b.branch, hascc |-> b.hascc,
      cc |-> b.cc, tuple |-> b.tuple] : n \in DomLineNos(d), h \in DomHits(d), b \in DomBranch(d)}

\* A <line> element of a method record.
MethodLine(n, h) ==
    [number |-> n, hits |-> h, branch |-> "", hascc |-> FALSE, cc |-> <<>>]

\* A <method> element: its name attribute and the <line> elements of its
\* <lines> child.
Method(name, ls) == [name |-> name, lines |-> ls]

\* The <methods> node of a file: empty, as Coverage.py writes it, or with
\* method records: without lines, with lines in increasing order, with lines
\* out of order, with a branch line that lacks its condition-coverage, and
\* two methods.
DomMethods(d) ==
    IF d = "methods"
    THEN {<<>>,
          <<Method(<<"m">>, <<>>)>>,
          <<Method(<<"m">>, <<MethodLine(1, 1)>>)>>,
          <<Method(<<"m">>, <<MethodLine(1, 0), MethodLine(2, 1)>>)>>,
          <<Method(<<"m">>, <<MethodLine(2, 1), MethodLine(1, 1)>>)>>,
          <<Method(<<"m">>,
                   <<[MethodLine(1, 1) EXCEPT !.branch = "true"]>>)>>,
          <<Method(<<"n">>, <<MethodLine(2, 0)>>),
            Method(<<"m">>, <<MethodLine(1, 1)>>)>>}
    ELSE {<<>>}

-----------------------------------------------------------------------------
(* State                                                                   *)

VARIABLES
    args,          \* scriptArgs, as given to __init__
    dom,           \* the family of inputs of this run
    pc,            \* where the run stands
    out,           \* self._outf: the records written so far
    diag,          \* what the run printed
    root,          \* the tags of the root's children (<<"unparsed">> before)
    source_paths,  \* process_xml_file's list of [path, uses]
    files,         \* the file entries visited so far, with what was drawn
                   \* for each and, once process_file has returned, with
                   \* what it read and the block it wrote
    nlines,        \* the <line> elements read in this run
    filename,      \* process_file's filename
    sourceCode,    \* process_file's sourceCode (<<>> is None)
    methods,       \* the <method> elements of the current file
    functions, currentObj, objStack, prevLine, totals, lineData,
    lines          \* the <line> elements of the current file read so far

fileVars == <<filename, sourceCode, methods, functions, currentObj, objStack, prevLine,
              totals, lineData, lines>>
vars == <<args, dom, pc, out, diag, root, source_paths, files, nlines,
          filename, sourceCode, methods, functions, currentObj, objStack,
          prevLine, totals, lineData, lines>>

Totals0 == [line |-> <<0, 0>>, branch |-> <<0, 0>>, function |-> <<0, 0>>]
EmptyMap == [k \in {} |-> 0]

\* The state after ProcessFile(scriptArgs): the output holds TN.
Init ==
    /\ dom \in Families
    /\ args \in DomArgs(dom)
    /\ pc = "start"
    /\ out = <<<<"TN", "t">>>>
    /\ diag = <<>>
    /\ root = <<"unparsed">>
    /\ source_paths = <<>>
    /\ files = <<>>
    /\ nlines = 0
    /\ filename = <<>>
    /\ sourceCode = <<>>
    /\ methods = <<>>
    /\ functions = <<>>
    /\ currentObj = <<>>
    /\ objStack = <<>>
    /\ prevLine = 0
    /\ totals = Totals0
    /\ lineData = EmptyMap
    /\ lines = <<>>

-----------------------------------------------------------------------------
(* process_xml_file                                                        *)

\* process_xml_file up to the loop over the packages: the checks of the
\* root's first two children.  sys.exit inside the try raises SystemExit,
\* which `except Exception` does not catch; a missing child raises
\* IndexError, which it does.
ParseRoot ==
    /\ pc = "start"
    /\ \E r \in Roots, srcs \in DomSources(dom) :
        /\ root' = r
        /\ IF Len(r) >= 1 /\ r[1] # "sources"
           THEN /\ pc' = "exit"
                /\ diag' = Append(diag, <<"no sources">>)
                /\ source_paths' = source_paths
           ELSE IF Len(r) = 2 /\ r[2] # "packages"
           THEN /\ pc' = "exit"
                /\ diag' = Append(diag, <<"no packages">>)
                /\ source_paths' = [i \in 1..Len(srcs) |-> <<srcs[i], 0>>]
           ELSE IF Len(r) < 2
           THEN /\ pc' = IF args.keepGoing THEN "done" ELSE "exit"
                /\ diag' = Append(diag, <<"parse xml fail">>)
                /\ source_paths' =
                       IF Len(r) = 0 THEN source_paths
                       ELSE [i \in 1..Len(srcs) |-> <<srcs[i], 0>>]
           ELSE /\ pc' = "files"
                /\ diag' = diag
                /\ source_paths' = [i \in 1..Len(srcs) |-> <<srcs[i], 0>>]
    /\ UNCHANGED <<args, dom, out, files, nlines, fileVars>>

\* FirstFound taking the last source path under which the file exists.
FirstFoundLast(exists) ==
    IF exists = {} THEN 0 ELSE CHOOSE i \in exists : \A j \in exists : j <= i

\* The position of the first source path under which the file exists
\* (0: under none).
FirstFound(exists) ==
    IF exists = {} THEN 0 ELSE CHOOSE i \in exists : \A j \in exists : i <= j

\* The body of the loop over the file nodes, up to the call of process_file:
\* exclusion, the search of the source paths, SF and VER.
BeginFile ==
    /\ pc = "files"
    /\ Len(files) < DomMaxFiles(dom)
    /\ \E e \in DomEntries(dom) :
       LET excluded == IsExcluded(args, e.filename)
           searched == ~excluded /\ ~IsExternal(e.pkg)
           script == VersionScriptOf(args)
       IN
       \E exists \in IF searched THEN DomExists(dom, Len(source_paths))
                     ELSE {{}},
          verOk \in IF ~excluded /\ script # <<>> THEN BOOLEAN ELSE {TRUE} :
       LET found == FirstFound(exists)
           name == IF searched /\ found # 0
                   THEN PathJoin(source_paths[found][1], e.filename)
                   ELSE e.filename
           sf == Append(out, <<"SF", name>>)
       IN
        /\ files' = Append(files, [pkg |-> e.pkg, filename |-> e.filename,
                                   exists |-> exists, verOk |-> verOk,
                                   returned |-> FALSE, name |-> <<>>,
                                   src |-> <<>>, methods |-> <<>>,
                                   lines |-> <<>>, block |-> <<>>])
        /\ IF excluded
           THEN UNCHANGED <<pc, out, diag, source_paths, filename>>
           ELSE IF searched /\ found = 0 /\ Len(source_paths) = 0
           THEN \* the for-else prints `path`, which no iteration has bound
                /\ pc' = "crash"
                /\ UNCHANGED <<out, diag, source_paths, filename>>
           ELSE /\ source_paths' =
                       IF searched /\ found # 0
                       THEN [source_paths EXCEPT ![found][2] = @ + 1]
                       ELSE source_paths
                /\ filename' = name
                /\ out' = IF script # <<>> /\ verOk
                          THEN Append(sf, <<"VER", "1">>) ELSE sf
                /\ diag' =
                       (IF searched /\ found = 0
                        THEN Append(diag, <<"did not find", e.filename>>)
                        ELSE diag)
                       \o (IF script # <<>> /\ ~verOk
                           THEN <<<<"no version", name>>>> ELSE <<>>)
                /\ pc' = IF script # <<>> /\ ~verOk /\ ~args.keepGoing
                         THEN "exit" ELSE "open"
    /\ UNCHANGED <<args, dom, root, nlines, sourceCode, methods, functions,
                   currentObj, objStack, prevLine, totals, lineData, lines>>

\* The loop over the <line> elements of one method's <lines> child, from
\* the i-th on: first and last line number and the hits of the first line
\* (first is 0 while it is None).  ok is FALSE when an assertion fails: a
\* line number that does not exceed the one before, or a branch line
\* without a condition-coverage that parses.
RECURSIVE MethodLines(_, _, _, _, _)
MethodLines(ls, i, first, last, hit) ==
    IF i > Len(ls)
    THEN [ok |-> TRUE, first |-> first, last |-> last, hit |-> hit]
    ELSE LET l == ls[i]
         IN  IF first # 0 /\ ~(l.number > last)
             THEN [ok |-> FALSE, first |-> first, last |-> last, hit |-> hit]
             ELSE IF l.branch = "true"
                     /\ (~l.hascc \/ parseCondition(l.cc) = <<>>)
             THEN [ok |-> FALSE, first |-> first, last |-> last, hit |-> hit]
             ELSE MethodLines(ls, i + 1,
                              IF first = 0 THEN l.number ELSE first,
                              l.number,
                              IF first = 0 THEN l.hits ELSE hit)

\* The branch `node.tag == 'methods'` from the i-th method on: a method
\* with lines is appended to the functions, one without is passed over.
RECURSIVE MethodsNode(_, _, _)
MethodsNode(fns, ms, i) ==
    IF i > Len(ms) THEN [ok |-> TRUE, functions |-> fns]
    ELSE LET r == MethodLines(ms[i].lines, 1, 0, 0, 0)
         IN  IF ~r.ok THEN [ok |-> FALSE, functions |-> fns]
             ELSE MethodsNode(IF r.first # 0
                              THEN Append(fns, [name |-> ms[i].name,
                                                start |-> r.first,
                                                end |-> r.last,
                                                hit |-> r.hit])
                              ELSE fns,
                              ms, i + 1)

\* FreshFunctions leaving in the list what the file before put there.
StaleFunctions(old) == old

\* `functions = []`: the list process_file starts with, whatever the list of
\* the file before holds.
FreshFunctions(old) == <<>>

\* process_file up to the loop over the lines: the source text is read when
\* checksums or derived functions are asked for, the methods node is
\* translated into functions, and the locals are set.
OpenSource ==
    /\ pc = "open"
    /\ LET wanted == args.checksum
                         \/ (args.isPython /\ args.deriveFunctions)
       IN \E opened \in IF wanted THEN BOOLEAN ELSE {FALSE},
             ms \in DomMethods(dom) :
          LET stopped == wanted /\ ~opened /\ ~args.keepGoing
              m == MethodsNode(FreshFunctions(functions), ms, 1)
          IN
           /\ sourceCode' = IF opened THEN [i \in 1..MaxLines |-> Unread]
                            ELSE <<>>
           /\ diag' = IF wanted /\ ~opened
                      THEN Append(diag, <<"cannot open", filename>>)
                      ELSE diag
           /\ methods' = ms
           /\ functions' = IF stopped THEN <<>> ELSE m.functions
           /\ pc' = IF stopped THEN "exit"
                    ELSE IF ~m.ok THEN "crash"
                    ELSE "lines"
    /\ currentObj' = <<>>
    /\ objStack' = <<>>
    /\ prevLine' = 0
    /\ totals' = Totals0
    /\ lineData' = EmptyMap
    /\ lines' = <<>>
    /\ UNCHANGED <<args, dom, out, root, source_paths, files, nlines, filename>>

-----------------------------------------------------------------------------
(* process_file: the derivation of functions from indentation               *)

SepClass == <<":", ":">>
SepDef == <<".">>

\* The prefix and separator buildFunction accumulates over objStack,
\* bottom first: <<prefix, sep>>.
RECURSIVE PrefixOf(_, _, _, _)
PrefixOf(stack, i, prefix, sep) ==
    IF i > Len(stack) THEN <<prefix, sep>>
    ELSE PrefixOf(stack, i + 1, prefix \o sep \o stack[i].name,
                  IF stack[i].type = KwClass THEN SepClass ELSE SepDef)

\* buildFunction ending the function at its declaration line instead of
\* at lastLine.
buildFunctionNoBody(fns, stack, obj, lastLine, prev) ==
    IF prev # 0 /\ obj.type = KwDef
    THEN LET ps == PrefixOf(stack, 1, <<>>, <<>>)
         IN  Append(fns, [name |-> ps[1] \o ps[2] \o obj.name,
                          start |-> obj.start,
                          end |-> obj.start,
                          hit |-> IF obj.hasHit THEN obj.hit ELSE 0])
    ELSE fns

\* buildFunction(functions, objStack, currentObj, lastLine): the list of
\* functions after the call.  obj is the frame closed, prev the prevLine of
\* the enclosing process_file, which the function reads.
buildFunction(fns, stack, obj, lastLine, prev) ==
    IF prev # 0 /\ obj.type = KwDef
    THEN LET ps == PrefixOf(stack, 1, <<>>, <<>>)
         IN  Append(fns, [name |-> ps[1] \o ps[2] \o obj.name,
                          start |-> obj.start,
                          end |-> lastLine,
                          hit |-> IF obj.hasHit THEN obj.hit ELSE 0])
    ELSE fns

\* CloseScopes leaving open a frame indented as much as the line.
RECURSIVE CloseScopesDeeperOnly(_, _, _, _, _)
CloseScopesDeeperOnly(fns, stack, cur, indent, prev) ==
    IF cur # <<>> /\ indent < cur[1].indent
    THEN LET built == buildFunction(fns, stack, cur[1], prev, prev)
         IN  IF stack = <<>>
             THEN [functions |-> built, objStack |-> <<>>, currentObj |-> <<>>]
             ELSE CloseScopesDeeperOnly(built, SubSeq(stack, 1, Len(stack) - 1),
                                       <<stack[Len(stack)]>>, indent, prev)
    ELSE [functions |-> fns, objStack |-> stack, currentObj |-> cur]

\* The loop `while currentObj and indent <= currentObj['indent']`: frames
\* are closed, innermost first, until one is indented less than the line.
RECURSIVE CloseScopes(_, _, _, _, _)
CloseScopes(fns, stack, cur, indent, prev) ==
    IF cur # <<>> /\ indent <= cur[1].indent
    THEN LET built == buildFunction(fns, stack, cur[1], prev, prev)
         IN  IF stack = <<>>
             THEN [functions |-> built, objStack |-> <<>>, currentObj |-> <<>>]
             ELSE CloseScopes(built, SubSeq(stack, 1, Len(stack) - 1),
                              <<stack[Len(stack)]>>, indent, prev)
    ELSE [functions |-> fns, objStack |-> stack, currentObj |-> cur]

\* The loop `while currentObj` after the last line: every open frame is
\* closed, innermost first.
RECURSIVE CloseAll(_, _, _, _)
CloseAll(fns, stack, cur, prev) ==
    IF cur # <<>>
    THEN LET built == buildFunction(fns, stack, cur[1], prev, prev)
         IN  IF stack = <<>>
             THEN [functions |-> built, objStack |-> <<>>, currentObj |-> <<>>]
             ELSE CloseAll(built, SubSeq(stack, 1, Len(stack) - 1),
                           <<stack[Len(stack)]>>, prev)
    ELSE [functions |-> fns, objStack |-> stack, currentObj |-> cur]

\* A declaration line opens a frame: the current one goes on the stack.
OpenScope(st, m, lineNo) ==
    [st EXCEPT
       !.objStack = IF st.currentObj # <<>>
                    THEN Append(st.objStack, st.currentObj[1])
                    ELSE st.objStack,
       !.currentObj = <<[type |-> m.g3, name |-> ObjName(m.g4),
                         indent |-> count(m.g1), start |-> lineNo,
                         hasHit |-> FALSE, hit |-> 0]>>]

\* Any other line: the first one seen while a frame is current gives the
\* frame its 'hit'; a hit of 0 also zeroes the declaration line's count.
\* ok is FALSE when assert(currentObj['start'] in lineData) fails.
FirstLine(st, hit, ld) ==
    IF st.currentObj # <<>> /\ ~st.currentObj[1].hasHit
    THEN [ok |-> hit # 0 \/ st.currentObj[1].start \in DOMAIN ld,
          functions |-> st.functions,
          objStack |-> st.objStack,
          currentObj |-> <<[st.currentObj[1] EXCEPT !.hasHit = TRUE,
                                                  !.hit = hit]>>,
          lineData |-> IF hit = 0 /\ st.currentObj[1].start \in DOMAIN ld
                       THEN [ld EXCEPT ![st.currentObj[1].start] = 0]
                       ELSE ld]
    ELSE [ok |-> TRUE, functions |-> st.functions, objStack |-> st.objStack,
          currentObj |-> st.currentObj, lineData |-> ld]

\* The derivation for one line whose text is in range.  ok is FALSE when an
\* assertion fails (count's, or the one of FirstLine).
DeriveLine(text, lineNo, hit, ld) ==
    LET m == parseLine(text)
    IN  IF ~CountOk(m.g1)
        THEN [ok |-> FALSE, functions |-> functions, objStack |-> objStack,
              currentObj |-> currentObj, lineData |-> ld]
        ELSE LET st == CloseScopes(functions, objStack, currentObj,
                                   count(m.g1), prevLine)
             IN  IF m.has2
                 THEN LET o == OpenScope(st, m, lineNo)
                      IN  [ok |-> TRUE, functions |-> o.functions,
                           objStack |-> o.objStack,
                           currentObj |-> o.currentObj, lineData |-> ld]
                 ELSE FirstLine(st, hit, ld)

-----------------------------------------------------------------------------
(* process_file: branches                                                   *)

\* BranchRecords with the first loop running one index too far.
BranchRecordsOneMore(lineNo, taken, total) ==
    [i \in 1..(taken + 1) |-> <<"BRDA", lineNo, 0, i - 1, 1>>]
        \o [i \in 1..(total - taken) |-> <<"BRDA", lineNo, 0, taken + i - 1, 0>>]

\* The BRDA records of one line: `taken` taken branches, then the others.
BranchRecords(lineNo, taken, total) ==
    [i \in 1..taken |-> <<"BRDA", lineNo, 0, i - 1, 1>>]
        \o [i \in 1..(total - taken) |-> <<"BRDA", lineNo, 0, taken + i - 1, 0>>]

\* The branch part of the loop body for one <line> element.  ok is FALSE
\* when one of its assertions fails.
BranchStep(line) ==
    IF line.branch # "true"
    THEN [ok |-> TRUE, recs |-> <<>>, found |-> 0, hit |-> 0]
    ELSE IF ~line.hascc \/ parseCondition(line.cc) = <<>>
    THEN [ok |-> FALSE, recs |-> <<>>, found |-> 0, hit |-> 0]
    ELSE LET m == parseCondition(line.cc)
             taken == IntOf(m[1])
             total == IntOf(m[2])
             recs == BranchRecords(line.number, taken, total)
         IN  [ok |-> TRUE, recs |-> recs, found |-> Len(recs), hit |-> taken]

\* totals['line'] after one more line with this hit count.
CountLine(t, hit) ==
    [t EXCEPT !.line = <<@[1] + 1, IF hit # 0 THEN @[2] + 1 ELSE @[2]>>]

\* The body of `for line in node` for one <line> element.
ProcessLine ==
    /\ pc = "lines"
    /\ nlines < DomMaxLines(dom)
    /\ \E line \in DomLines(dom) :
        /\ IF DomOrdered(dom) /\ lines # <<>>
           THEN line.number > lines[Len(lines)].number
           ELSE TRUE
        /\ LET lineNo == line.number
               hit == line.hits
               ld == (lineNo :> hit) @@ lineData
               derives == sourceCode # <<>> /\ args.isPython
               inRange == lineNo <= Len(sourceCode)
           IN
           \E text \in IF derives /\ inRange /\ sourceCode[lineNo] = Unread
                       THEN DomTexts(dom)
                       ELSE IF derives /\ inRange THEN {sourceCode[lineNo]}
                       ELSE {Unread} :
           LET d == IF derives /\ inRange
                    THEN DeriveLine(text, lineNo, hit, ld)
                    ELSE [ok |-> TRUE, functions |-> functions,
                          objStack |-> objStack, currentObj |-> currentObj,
                          lineData |-> ld]
               outOfRange == derives /\ ~inRange
               stopped == ~d.ok \/ (outOfRange /\ ~args.keepGoing)
               b == IF stopped
                    THEN [ok |-> TRUE, recs |-> <<>>, found |-> 0, hit |-> 0]
                    ELSE BranchStep(line)
           IN
            /\ lines' = Append(lines, line)
            /\ nlines' = nlines + 1
            /\ sourceCode' = IF derives /\ inRange
                             THEN [sourceCode EXCEPT ![lineNo] = text]
                             ELSE sourceCode
            /\ lineData' = d.lineData
            /\ functions' = d.functions
            /\ objStack' = d.objStack
            /\ currentObj' = d.currentObj
            /\ prevLine' = IF derives /\ inRange /\ d.ok THEN lineNo
                           ELSE prevLine
            /\ totals' = [CountLine(totals, hit) EXCEPT
                            !.branch = <<@[1] + b.found, @[2] + b.hit>>]
            /\ out' = out \o b.recs
            /\ diag' = IF outOfRange
                       THEN Append(diag, <<"out of range", lineNo>>)
                       ELSE diag
            /\ pc' = IF ~d.ok \/ ~b.ok THEN "crash"
                     ELSE IF stopped THEN "exit"
                     ELSE "lines"
    /\ UNCHANGED <<args, dom, root, source_paths, files, filename, methods>>

-----------------------------------------------------------------------------
(* process_file: what is written after the last line                       *)

\* SortedSeq with the keys left in descending order.
RECURSIVE SortedSeqDescending(_)
SortedSeqDescending(S) ==
    IF S = {} THEN <<>>
    ELSE LET hi == CHOOSE x \in S : \A y \in S : y <= x
         IN  <<hi>> \o SortedSeqDescending(S \ {hi})

\* sorted(lineData.keys())
RECURSIVE SortedSeq(_)
SortedSeq(S) ==
    IF S = {} THEN <<>>
    ELSE LET lo == CHOOSE x \in S : \A y \in S : x <= y
         IN  <<lo>> \o SortedSeq(S \ {lo})

\* line_hash(line): a checksum of the line's text (distinct texts are given
\* distinct checksums).
line_hash(text) == <<"md5">> \o text

\* FunctionRecords writing the FNA record of a function before its FNL.
RECURSIVE FunctionRecordsAttrFirst(_, _)
FunctionRecordsAttrFirst(fns, i) ==
    IF i > Len(fns) THEN <<>>
    ELSE <<<<"FNA", i - 1, fns[i].hit, fns[i].name>>,
           <<"FNL", i - 1, fns[i].start, fns[i].end>>>>
             \o FunctionRecordsAttrFirst(fns, i + 1)

\* The FNL and FNA records of the functions, indexed from 0.
RECURSIVE FunctionRecords(_, _)
FunctionRecords(fns, i) ==
    IF i > Len(fns) THEN <<>>
    ELSE <<<<"FNL", i - 1, fns[i].start, fns[i].end>>,
           <<"FNA", i - 1, fns[i].hit, fns[i].name>>>>
             \o FunctionRecords(fns, i + 1)

\* totals['function'] after the loop over the functions.
CountFunctions(t, fns) ==
    [t EXCEPT !.function =
        <<@[1] + Len(fns),
          @[2] + Cardinality({i \in 1..Len(fns) : fns[i].hit # 0})>>]

\* The loop over sorted(lineData.keys()) from the i-th key on: the DA records
\* written and what was printed, until the loop ends or an exception leaves
\* it (raised is then TRUE).  With checksums, subscripting a sourceCode of
\* None raises TypeError, which `except IndexError` does not catch.
RECURSIVE LineRecords(_, _, _, _, _)
LineRecords(a, src, ld, keys, i) ==
    IF i > Len(keys) THEN [recs |-> <<>>, diag |-> <<>>, raised |-> FALSE]
    ELSE LET lineNo == keys[i]
             rest == LineRecords(a, src, ld, keys, i + 1)
             plain == <<"DA", lineNo, ld[lineNo], <<>>>>
         IN  IF ~a.checksum
             THEN [rest EXCEPT !.recs = <<plain>> \o @]
             ELSE IF src = <<>>
             THEN [recs |-> <<>>, diag |-> <<>>, raised |-> TRUE]
             ELSE IF lineNo > Len(src)
             THEN IF a.keepGoing
                  THEN [rest EXCEPT
                          !.recs = <<plain>> \o @,
                          !.diag = <<<<"no checksum", lineNo>>>> \o @]
                  ELSE [recs |-> <<>>,
                        diag |-> <<<<"no checksum", lineNo>>>>,
                        raised |-> TRUE]
             ELSE [rest EXCEPT !.recs =
                     <<<<"DA", lineNo, ld[lineNo], line_hash(src[lineNo])>>>>
                         \o @]

\* TotalRecords writing every pair, found or not.
TotalRecordsAlways(t) ==
    <<<<"LF", t.line[1]>>, <<"LH", t.line[2]>>,
      <<"BRF", t.branch[1]>>, <<"BRH", t.branch[2]>>,
      <<"FNF", t.function[1]>>, <<"FNH", t.function[2]>>>>

\* The records of the totals: a pair is left out when nothing was found.
TotalRecords(t) ==
    (IF t.line[1] = 0 THEN <<>>
     ELSE <<<<"LF", t.line[1]>>, <<"LH", t.line[2]>>>>)
    \o (IF t.branch[1] = 0 THEN <<>>
        ELSE <<<<"BRF", t.branch[1]>>, <<"BRH", t.branch[2]>>>>)
    \o (IF t.function[1] = 0 THEN <<>>
        ELSE <<<<"FNF", t.function[1]>>, <<"FNH", t.function[2]>>>>)

\* process_file after the last line: the frames still open are closed, then
\* the function records, the DA records and the totals are written.
CloseFile ==
    /\ pc = "lines"
    /\ LET st == CloseAll(functions, objStack, currentObj, prevLine)
           t == CountFunctions(totals, st.functions)
           keys == SortedSeq(DOMAIN lineData)
           hashed == IF args.checksum /\ sourceCode # <<>>
                     THEN {k \in DOMAIN lineData :
                              k <= Len(sourceCode) /\ sourceCode[k] = Unread}
                     ELSE {}
       IN \E fill \in [hashed -> DomTexts(dom)] :
          LET src == [i \in 1..Len(sourceCode) |->
                         IF i \in hashed THEN fill[i] ELSE sourceCode[i]]
              da == LineRecords(args, src, lineData, keys, 1)
          IN
           /\ sourceCode' = src
           /\ functions' = st.functions
           /\ objStack' = st.objStack
           /\ currentObj' = st.currentObj
           /\ totals' = t
           /\ diag' = diag \o da.diag
           /\ out' = out \o FunctionRecords(st.functions, 1) \o da.recs
                         \o (IF da.raised THEN <<>> ELSE TotalRecords(t))
           /\ pc' = IF da.raised THEN "crash" ELSE "record"
    /\ UNCHANGED <<args, dom, root, source_paths, files, nlines, filename,
                   methods, prevLine, lineData, lines>>

\* The position of the last SF record of the output (0: none).
LastSF ==
    LET at == {i \in 1..Len(out) : out[i][1] = "SF"}
    IN  IF at = {} THEN 0 ELSE CHOOSE i \in at : \A j \in at : j <= i

\* The records of the block of the current file, SF included.
Block == IF LastSF = 0 THEN <<>> ELSE SubSeq(out, LastSF, Len(out))

\* process_xml_file after process_file has returned.  The entry of the file
\* in `files` takes down what process_file read and the block written.
EndRecord ==
    /\ pc = "record"
    /\ out' = Append(out, <<"end_of_record">>)
    /\ pc' = "files"
    /\ files' = [files EXCEPT ![Len(files)] =
                    [@ EXCEPT !.returned = TRUE, !.name = filename,
                              !.src = sourceCode, !.methods = methods,
                              !.lines = lines,
                              !.block = Append(Block, <<"end_of_record">>)]]
    /\ UNCHANGED <<args, dom, diag, root, source_paths, nlines, fileVars>>

\* The warnings for the source paths that found no file.
RECURSIVE UnusedWarnings(_, _)
UnusedWarnings(sp, i) ==
    IF i > Len(sp) THEN <<>>
    ELSE (IF sp[i][2] = 0 THEN <<<<"unused", sp[i][1]>>>> ELSE <<>>)
             \o UnusedWarnings(sp, i + 1)

\* process_xml_file after the last file node.
Finish ==
    /\ pc = "files"
    /\ diag' = diag \o UnusedWarnings(source_paths, 1)
    /\ pc' = "done"
    /\ UNCHANGED <<args, dom, out, root, source_paths, files, nlines,
                   fileVars>>

Next ==
    \/ ParseRoot
    \/ BeginFile
    \/ OpenSource
    \/ ProcessLine
    \/ CloseFile
    \/ EndRecord
    \/ Finish

Spec == Init /\ [][Next]_vars

-----------------------------------------------------------------------------
(* Reading the output                                                      *)

\* The records of a sequence that carry a given tag, in order.
RECURSIVE Tagged(_, _)
Tagged(recs, tag) ==
    IF recs = <<>> THEN <<>>
    ELSE (IF Head(recs)[1] = tag THEN <<Head(recs)>> ELSE <<>>)
             \o Tagged(Tail(recs), tag)

\* The number of SF records among the first i records of the output: the
\* block the i-th record belongs to.
BlockOf(i) == Cardinality({j \in 1..i : out[j][1] = "SF"})

-----------------------------------------------------------------------------
(* C1 *)

\* The BRDA records claimed for the <line> elements ls, in their order: for
\* a branch line with tuple (taken, total), `total` records with block 0
\* and indices 0..total-1, the first `taken` flagged 1.
RECURSIVE ClaimedBranchRecords(_)
ClaimedBranchRecords(ls) ==
    IF ls = <<>> THEN <<>>
    ELSE LET l == Head(ls)
         IN  (IF l.branch = "true"
              THEN [i \in 1..l.tuple[2] |->
                       <<"BRDA", l.number, 0, i - 1,
                         IF i <= l.tuple[1] THEN 1 ELSE 0>>]
              ELSE <<>>)
             \o ClaimedBranchRecords(Tail(ls))

RECURSIVE SumTuples(_, _)
SumTuples(ls, k) ==
    IF ls = <<>> THEN 0
    ELSE (IF Head(ls).branch = "true" THEN Head(ls).tuple[k] ELSE 0)
             + SumTuples(Tail(ls), k)

\* Every branch line read so far was given a (taken, total) with
\* 0 <= taken <= total.
TuplesInRange ==
    \A i \in 1..Len(lines) :
        lines[i].branch = "true" =>
            /\ lines[i].tuple # <<>>
            /\ lines[i].tuple[1] <= lines[i].tuple[2]

\* C1: while and after the lines of a file are read, the BRDA records of its
\* block are, line by line, `total` records with block id 0 and indices
\* 0..total-1 ascending, the first `taken` flagged 1 and the others 0 (none
\* for total = 0); the branch totals are the sums of total and of taken over
\* the file's branch lines, and they are what BRF and BRH carry.
C1_BranchRecords ==
    (pc \in {"lines", "record"} /\ TuplesInRange) =>
        /\ Tagged(Block, "BRDA") = ClaimedBranchRecords(lines)
        /\ totals.branch = <<SumTuples(lines, 2), SumTuples(lines, 1)>>
        /\ (pc = "record" /\ SumTuples(lines, 2) > 0) =>
               /\ Tagged(Block, "BRF") = <<<<"BRF", SumTuples(lines, 2)>>>>
               /\ Tagged(Block, "BRH") = <<<<"BRH", SumTuples(lines, 1)>>>>

\* A file with two branch lines of different numbers, one partly taken and
\* one with no branch at all, has been written.
C1_Witness ==
    /\ pc = "record"
    /\ Len(lines) = 2
    /\ lines[1].number # lines[2].number
    /\ lines[1].branch = "true" /\ lines[1].tuple = <<1, MaxTotal>>
    /\ lines[2].branch = "true" /\ lines[2].tuple = <<0, 0>>
    /\ Len(Tagged(Block, "BRDA")) = MaxTotal

-----------------------------------------------------------------------------
(* C2 *)

\* C2: in every block of the output, whatever the order and repetition of
\* the <line> elements, the line numbers of the DA records ascend strictly,
\* and the k-th FNL record and the k-th FNA record carry index k-1.
C2_OrderedRecords ==
    /\ \A i, j \in 1..Len(out) :
           (i < j /\ out[i][1] = "DA" /\ out[j][1] = "DA"
                  /\ BlockOf(i) = BlockOf(j)) => out[i][2] < out[j][2]
    /\ \A i \in 1..Len(out) :
           out[i][1] \in {"FNL", "FNA"} =>
               out[i][2] = Cardinality({j \in 1..(i - 1) :
                                           /\ out[j][1] = out[i][1]
                                           /\ BlockOf(j) = BlockOf(i)})

\* A file whose lines came in descending order and hold two functions has
\* been written.
C2_Witness ==
    /\ pc = "record"
    /\ Len(lines) = 2
    /\ lines[1].number > lines[2].number
    /\ Len(Tagged(Block, "DA")) = 2
    /\ Len(Tagged(Block, "FNL")) = 2

-----------------------------------------------------------------------------
(* Reading the input and the block of the current file                     *)

\* The value a total record of the block carries (0: the record is absent).
TotalOf(tag) ==
    IF Tagged(Block, tag) = <<>> THEN 0 ELSE Tagged(Block, tag)[1][2]

\* The functions of the block, from its FNL and FNA records.
EmittedFunctions ==
    LET fnl == Tagged(Block, "FNL")
        fna == Tagged(Block, "FNA")
    IN  [i \in 1..Len(fnl) |->
            [start |-> fnl[i][3], end |-> fnl[i][4],
             hit |-> fna[i][3], name |-> fna[i][4]]]

\* The hit count the DA record of line n carries.
EmittedHit(n) ==
    LET da == Tagged(Block, "DA")
    IN  da[CHOOSE i \in 1..Len(da) : da[i][2] = n][3]

UniqueNumbers ==
    \A i, j \in 1..Len(lines) : i # j => lines[i].number # lines[j].number

Increasing ==
    \A i, j \in 1..Len(lines) : i < j => lines[i].number < lines[j].number

\* The derivation ran over the lines of the current file, which has no
\* method records, all of them were in range, and the file's block is
\* written.
Derived ==
    /\ pc = "record"
    /\ args.isPython
    /\ sourceCode # <<>>
    /\ methods = <<>>
    /\ Increasing
    /\ \A i \in 1..Len(lines) : lines[i].number <= Len(sourceCode)

\* The positions in `lines` of the lines observed inside a function: after
\* its declaration line, up to its closing line.
BodyOf(f) ==
    {i \in 1..Len(lines) :
        f.start < lines[i].number /\ lines[i].number <= f.end}

-----------------------------------------------------------------------------
(* C3 *)

\* C3: in the block of a file whose line numbers are unique, LF is the number
\* of DA records and LH the number of DA records with a hit count other
\* than 0, with derivation off or on.
C3_LineTotals ==
    (pc = "record" /\ UniqueNumbers) =>
        LET da == Tagged(Block, "DA")
        IN  /\ TotalOf("LF") = Len(da)
            /\ TotalOf("LH") = Cardinality({i \in 1..Len(da) : da[i][3] # 0})

-----------------------------------------------------------------------------
(* C4 *)

\* C4: the declaration line of a derived function whose observed body lines
\* (there is at least one) all have hit count 0 is written with hit count 0.
C4_UnreachedDeclaration ==
    Derived =>
        \A k \in 1..Len(EmittedFunctions) :
            LET f == EmittedFunctions[k]
            IN  (BodyOf(f) # {} /\ \A i \in BodyOf(f) : lines[i].hits = 0)
                    => EmittedHit(f.start) = 0

-----------------------------------------------------------------------------
(* C5 *)

\* C5: the hit a derived function is written with is the hit count of the
\* first line observed inside its body; and for `def f` at line 1, one body
\* line 2 with hit 1 and a line at width 0 after it, the function is f with
\* start 1, end 2 and hit 1, and line 1 keeps its hit count.
C5_FirstBodyLineHit ==
    Derived =>
        /\ \A k \in 1..Len(EmittedFunctions) :
               LET f == EmittedFunctions[k]
                   first == CHOOSE i \in BodyOf(f) : \A j \in BodyOf(f) : i <= j
               IN  BodyOf(f) # {} => f.hit = lines[first].hits
        /\ (/\ Len(lines) = 3
            /\ sourceCode = <<TxtDefF, <<" ">> \o TxtStmt, TxtStmt>>
            /\ lines[2].hits = 1)
               => /\ EmittedFunctions =
                        <<[start |-> 1, end |-> 2, hit |-> 1, name |-> <<"f">>]>>
                  /\ EmittedHit(1) = lines[1].hits

-----------------------------------------------------------------------------
(* C6 *)

\* What a source line is for Python: the width of its indentation, whether
\* it declares a function or a class, and the identifier declared.
TextWidth(text) ==
    LET n == Run(text, 1, {" ", "\t"})
    IN  Cardinality({i \in 1..n : text[i] = " "})
            + TabWidth * Cardinality({i \in 1..n : text[i] = "\t"})

TextKind(text) ==
    LET p == Run(text, 1, {" ", "\t"}) + 1
    IN  IF StartsAt(text, p, KwDef \o <<" ">>) THEN "def"
        ELSE IF StartsAt(text, p, KwClass \o <<" ">>) THEN "class"
        ELSE "stmt"

TextName(text) ==
    LET p == Run(text, 1, {" ", "\t"}) + 1
        q == p + (IF TextKind(text) = "def" THEN 3 ELSE 5)
        r == q + Run(text, q, {" ", "\t"})
    IN  SubSeq(text, r, r + RunNot(text, r, {"(", ":", " ", "\t"}) - 1)

\* The text of the i-th observed line.
TextAt(i) == sourceCode[lines[i].number]

\* The position of the line that closes the scope declared by the i-th
\* observed line: the first later line indented no deeper (one past the
\* last line when there is none).
ClosedAt(i) ==
    LET later == {j \in (i + 1)..Len(lines) :
                     TextWidth(TextAt(j)) <= TextWidth(TextAt(i))}
    IN  IF later = {} THEN Len(lines) + 1
        ELSE CHOOSE j \in later : \A k \in later : j <= k

\* The names of the scopes open at the i-th observed line, outermost first,
\* each followed by its separator.
RECURSIVE ScopeChain(_, _)
ScopeChain(i, p) ==
    IF p >= i THEN <<>>
    ELSE (IF TextKind(TextAt(p)) # "stmt" /\ ClosedAt(p) > i
          THEN TextName(TextAt(p))
                   \o (IF TextKind(TextAt(p)) = "class" THEN <<":", ":">>
                       ELSE <<".">>)
          ELSE <<>>)
         \o ScopeChain(i, p + 1)

\* The (name, start, end) of the function scopes of the observed lines.
KnownFunctions ==
    {<<ScopeChain(i, 1) \o TextName(TextAt(i)), lines[i].number,
       lines[ClosedAt(i) - 1].number>> :
        i \in {j \in 1..Len(lines) : TextKind(TextAt(j)) = "def"}}

\* C6: for lines observed in increasing order, the function records are, one
\* for one, the `def` scopes of the source: start at the declaration, end at
\* the last line observed before the scope closes, name qualified by the
\* enclosing scopes.
C6_KnownScopes ==
    (Derived /\ \A i \in 1..Len(lines) : CountOk(parseLine(TextAt(i)).g1)) =>
        /\ {<<EmittedFunctions[k].name, EmittedFunctions[k].start,
              EmittedFunctions[k].end>> : k \in 1..Len(EmittedFunctions)}
               = KnownFunctions
        /\ Len(EmittedFunctions) = Cardinality(KnownFunctions)

-----------------------------------------------------------------------------
(* C7 *)

\* C7: when the run has ended, in whatever way, every SF record of the output
\* is followed by the end_of_record of its block.
C7_NoTruncatedBlock ==
    pc \in {"done", "exit", "crash"} =>
        \A i \in 1..Len(out) :
            out[i][1] = "SF" =>
                \E j \in (i + 1)..Len(out) :
                    out[j][1] = "end_of_record" /\ BlockOf(j) = BlockOf(i)

-----------------------------------------------------------------------------
(* C8 *)

\* The root has been looked at and lacks its sources or packages section.
MissingSection ==
    /\ root # <<"unparsed">>
    /\ ~(Len(root) = 2 /\ root[1] = "sources" /\ root[2] = "packages")

\* C8: a report without its sources or packages section ends the run with an
\* error unless keep-going is set, and with keep-going it is reported and
\* process_xml_file returns with no file translated.
C8_MissingSection ==
    MissingSection =>
        IF args.keepGoing
        THEN pc = "done" /\ diag # <<>> /\ Tagged(out, "SF") = <<>>
        ELSE pc = "exit"

-----------------------------------------------------------------------------
(* C9 *)

\* The <line> element read last has a format error: a condition-coverage
\* that does not parse, an indentation with a character other than space and
\* tab, or a number beyond the source text that was read.
LastLineFormatError ==
    /\ pc \in {"lines", "exit", "crash"}
    /\ lines # <<>>
    /\ LET l == lines[Len(lines)]
       IN  \/ l.branch = "true" /\ l.hascc /\ l.tuple = <<>>
           \/ /\ args.isPython /\ sourceCode # <<>>
              /\ l.number <= Len(sourceCode)
              /\ ~CountOk(SubSeq(sourceCode[l.number], 1,
                                 Run(sourceCode[l.number], 1, Whitespace)))
           \/ sourceCode # <<>> /\ l.number > Len(sourceCode)

\* C9: with keep-going, a format error of a line does not end the run: the
\* lines of the file go on being read.
C9_KeepGoingPastLineErrors ==
    (args.keepGoing /\ LastLineFormatError) => pc = "lines"

-----------------------------------------------------------------------------
(* C10 *)

\* The source text of the current file was asked for and could not be read.
LoadFailed ==
    /\ pc \in {"lines", "record", "crash"}
    /\ args.checksum \/ (args.isPython /\ args.deriveFunctions)
    /\ sourceCode = <<>>

\* C10: with keep-going, a file whose source text cannot be read still gets
\* its whole block, every DA record without a checksum.
C10_LoadFailureSkipsFeature ==
    (args.keepGoing /\ LoadFailed) =>
        /\ pc # "crash"
        /\ pc = "record" =>
               LET da == Tagged(Block, "DA")
               IN  /\ Len(da) = Cardinality(DOMAIN lineData)
                   /\ \A i \in 1..Len(da) : da[i][4] = <<>>

-----------------------------------------------------------------------------
(* Reading the file entries                                                *)

\* The positions in `files` of the entries visited that no exclude pattern
\* matches, and of those among them that are internal.
Included == {k \in 1..Len(files) : ~IsExcluded(args, files[k].filename)}

Internal == {k \in Included : ~IsExternal(files[k].pkg)}

\* The sequence of the elements of seq at the positions in S, in order.
RECURSIVE Pick(_, _, _)
Pick(seq, S, i) ==
    IF i > Len(seq) THEN <<>>
    ELSE (IF i \in S THEN <<seq[i]>> ELSE <<>>) \o Pick(seq, S, i + 1)

-----------------------------------------------------------------------------
(* C11 *)

\* C11: in a report whose sources list is empty, every internal file visited
\* gets one "did not find" diagnostic, the run does not break off on it, and
\* the file is translated under its unresolved name.
C11_EmptySources ==
    (root = <<"sources", "packages">> /\ source_paths = <<>>) =>
        /\ pc # "crash"
        /\ Tagged(diag, "did not find")
               = [i \in 1..Cardinality(Internal) |->
                     <<"did not find", Pick(files, Internal, 1)[i].filename>>]
        /\ Tagged(out, "SF")
               = [i \in 1..Cardinality(Included) |->
                     <<"SF", Pick(files, Included, 1)[i].filename>>]

-----------------------------------------------------------------------------
(* C12 *)

\* Whether the i-th source path is the first one, in list order, under which
\* the file of the k-th entry exists.
ResolvedUnder(k, i) ==
    /\ ~IsExcluded(args, files[k].filename)
    /\ ~IsExternal(files[k].pkg)
    /\ i \in files[k].exists
    /\ \A j \in files[k].exists : i <= j

\* The name the k-th entry is to be translated under.
ResolvedName(k) ==
    IF \E i \in 1..Len(source_paths) : ResolvedUnder(k, i)
    THEN PathJoin(source_paths[CHOOSE i \in 1..Len(source_paths) :
                                   ResolvedUnder(k, i)][1],
                  files[k].filename)
    ELSE files[k].filename

\* C12: the usage counter of a source path is the number of internal,
\* non-excluded files visited that exist under it and under no earlier path
\* (so each such file adds 1 to that counter alone, and external and
\* unresolved files add nothing), each file is named after that path, and
\* when the run is done the unused-path warnings are those of the paths
\* whose counter is 0.
C12_SourcePathUse ==
    root = <<"sources", "packages">> =>
        /\ \A i \in 1..Len(source_paths) :
               source_paths[i][2]
                   = Cardinality({k \in 1..Len(files) : ResolvedUnder(k, i)})
        /\ LET sf == Tagged(out, "SF")
               visited == Pick([k \in 1..Len(files) |-> k], Included, 1)
           IN  \A n \in 1..Len(sf) : sf[n][2] = ResolvedName(visited[n])
        /\ pc = "done" =>
               Tagged(diag, "unused")
                   = [n \in 1..Cardinality({i \in 1..Len(source_paths) :
                                              source_paths[i][2] = 0}) |->
                        <<"unused",
                          Pick(source_paths,
                               {i \in 1..Len(source_paths) :
                                   source_paths[i][2] = 0}, 1)[n][1]>>]

\* A run is done in which a file existed under both of two source paths and
\* was counted for the first, the second being reported unused.
C12_Witness ==
    /\ pc = "done"
    /\ Len(source_paths) = 2
    /\ source_paths[1][2] = 1 /\ source_paths[2][2] = 0
    /\ \E k \in Internal : files[k].exists = {1, 2}
    /\ \E k \in 1..Len(files) : IsExternal(files[k].pkg)
    /\ Tagged(diag, "unused") = <<<<"unused", source_paths[2][1]>>>>

-----------------------------------------------------------------------------
(* C13 *)

\* The output is made of whole blocks, one for each of the entries visited
\* that no exclude pattern matches, in their order, each from its SF to its
\* end_of_record; the excluded entries have left no record.
WholeBlocks ==
    LET sf == {i \in 1..Len(out) : out[i][1] = "SF"}
        eor == {i \in 1..Len(out) : out[i][1] = "end_of_record"}
    IN  /\ Tagged(out, "SF")
               = [n \in 1..Cardinality(Included) |->
                     <<"SF", ResolvedName(Pick([k \in 1..Len(files) |-> k],
                                               Included, 1)[n])>>]
        /\ Cardinality(eor) = Cardinality(sf)
        /\ \A i \in sf : \E j \in eor :
               /\ i < j
               /\ BlockOf(j) = BlockOf(i)
               /\ j = Len(out) \/ out[j + 1][1] = "SF"

\* C13: with keep-going, whenever the run stands between two file entries or
\* has ended, every entry visited that matches an exclude pattern has left
\* no record and no count, and every other entry visited has exactly one
\* block from SF to end_of_record, the blocks in document order.
C13_OneBlockPerEntry ==
    (args.keepGoing /\ pc \in {"files", "done", "exit", "crash"}
        /\ root = <<"sources", "packages">>) =>
        /\ WholeBlocks
        /\ \A k \in 1..Len(files) :
               k \notin Included =>
                   \A i \in 1..Len(source_paths) : ~ResolvedUnder(k, i)

-----------------------------------------------------------------------------
(* C14 *)

\* In a block the pair of total records ftag, htag is there, once and the
\* hit record right behind the found record, when found is not 0, and
\* neither record is there when it is 0.
PairWritten(block, ftag, htag, found) ==
    LET f == {i \in 1..Len(block) : block[i][1] = ftag}
        h == {i \in 1..Len(block) : block[i][1] = htag}
    IN  IF found # 0
        THEN /\ Cardinality(f) = 1 /\ Cardinality(h) = 1
             /\ \A i \in f : block[i][2] = found /\ i + 1 \in h
        ELSE f = {} /\ h = {}

\* C14: in the block of a file, LF/LH are written when and only when a line
\* was found, BRF/BRH when and only when a branch was, FNF/FNH when and only
\* when a function was, each pair together and the hit record right behind
\* the found record.
C14_TotalPairs ==
    pc = "record" =>
        LET block == Block
        IN  /\ totals.line[1] = Len(lines)
            /\ totals.branch[1] = Len(Tagged(block, "BRDA"))
            /\ totals.function[1] = Len(Tagged(block, "FNL"))
            /\ PairWritten(block, "LF", "LH", totals.line[1])
            /\ PairWritten(block, "BRF", "BRH", totals.branch[1])
            /\ PairWritten(block, "FNF", "FNH", totals.function[1])

\* A block is written that has lines and a function and no branch.
C14_Witness ==
    /\ pc = "record"
    /\ Tagged(Block, "LF") # <<>>
    /\ Tagged(Block, "FNF") # <<>>
    /\ Tagged(Block, "BRDA") = <<>> /\ Tagged(Block, "BRF") = <<>>

-----------------------------------------------------------------------------
(* C15 *)

\* The entries i and j were both translated, from the same input: the same
\* name, source text, method records and <line> elements.
SameInput(i, j) ==
    /\ files[i].returned /\ files[j].returned
    /\ files[i].name = files[j].name
    /\ files[i].src = files[j].src
    /\ files[i].methods = files[j].methods
    /\ files[i].lines = files[j].lines

\* C15: with no version script, two entries of a run translated from the
\* same input have the same block, whatever was translated before each; and
\* when the first line of a file is about to be read, the scope stack is
\* empty, the totals are 0 and the functions are those of the file's method
\* records.
C15_SameInputSameBlock ==
    VersionScriptOf(args) = <<>> =>
        /\ \A i, j \in 1..Len(files) :
               SameInput(i, j) => files[i].block = files[j].block
        /\ (pc = "lines" /\ lines = <<>>) =>
               /\ currentObj = <<>> /\ objStack = <<>> /\ prevLine = 0
               /\ totals.line = <<0, 0>> /\ totals.branch = <<0, 0>>
               /\ totals.function = <<0, 0>>
               /\ lineData = EmptyMap
               /\ Len(functions) <= Len(methods)

\* The same file was translated twice, with a function derived each time,
\* from lines of which one had no hit.
C15_Witness ==
    /\ pc = "files"
    /\ Len(files) = 2
    /\ SameInput(1, 2)
    /\ Len(Tagged(files[1].block, "FNL")) = 1
    /\ Len(Tagged(files[2].block, "DA")) = 2
    /\ Tagged(files[2].block, "LH") = <<<<"LH", 1>>>>

-----------------------------------------------------------------------------
(* C16 *)

\* The positions of the method records of the current file that have lines.
WithLines == {i \in 1..Len(methods) : methods[i].lines # <<>>}

\* The function a method record with lines stands for.
MethodFunction(m) ==
    [start |-> m.lines[1].number, end |-> m.lines[Len(m.lines)].number,
     hit |-> m.lines[1].hits, name |-> m.name]

\* C16: the functions written for a file that has method records with lines
\* are those of the method records, in their order, and no other, with the
\* derivation enabled or not.
C16_MethodsOnly ==
    (pc = "record" /\ WithLines # {}) =>
        EmittedFunctions
            = [n \in 1..Cardinality(WithLines) |->
                  MethodFunction(Pick(methods, WithLines, 1)[n])]

-----------------------------------------------------------------------------
(* C17 *)

\* C17: the derived functions of a block are written in the order of their
\* declaration lines, a function nested in another after it: of two
\* function records the earlier one, with the smaller index, has the smaller
\* start line.
C17_DeclarationOrder ==
    Derived =>
        \A i, j \in 1..Len(EmittedFunctions) :
            i < j => EmittedFunctions[i].start < EmittedFunctions[j].start

-----------------------------------------------------------------------------
(* C18 *)

\* The positions in `lines` of the `def` lines with an observed body: the
\* line observed next is indented deeper.
DefsWithBody ==
    {i \in 1..Len(lines) :
        TextKind(TextAt(i)) = "def" /\ ClosedAt(i) > i + 1}

\* C18: every derived function written has at least one line observed
\* inside it, and FNF counts the `def` scopes with an observed body only: a
\* `def` followed at once by a line indented no deeper, or by the end of the
\* file, gives no function record.
C18_EmptyFunctionDropped ==
    Derived =>
        /\ \A k \in 1..Len(EmittedFunctions) :
               BodyOf(EmittedFunctions[k]) # {}
        /\ TotalOf("FNF") = Cardinality(DefsWithBody)

-----------------------------------------------------------------------------
(* C19 *)

\* The line opens a parenthesis that it does not close.
Unclosed(text) ==
    \E i \in 1..Len(text) :
        text[i] = "(" /\ \A j \in (i + 1)..Len(text) : text[j] # ")"

EndsWith(s, t) ==
    Len(t) <= Len(s) /\ SubSeq(s, Len(s) - Len(t) + 1, Len(s)) = t

\* C19: the name a derived function is written with ends with the
\* identifier of its declaration line, cut at the first parenthesis or
\* whitespace, and with the suffix `...)` behind it when the line leaves its
\* parenthesis open.
C19_ContinuationSuffix ==
    Derived =>
        \A k \in 1..Len(EmittedFunctions) :
            LET f == EmittedFunctions[k]
                text == sourceCode[f.start]
            IN  IF Unclosed(text)
                THEN EndsWith(f.name,
                              TextName(text) \o <<".", ".", ".", ")">>)
                ELSE EndsWith(f.name, TextName(text))

-----------------------------------------------------------------------------
(* C20 *)

\* The place of a record in the order of a block.
Rank(tag) ==
    CASE tag = "SF" -> 1 [] tag = "VER" -> 2 [] tag = "BRDA" -> 3
      [] tag \in {"FNL", "FNA"} -> 4 [] tag = "DA" -> 5
      [] tag = "LF" -> 6 [] tag = "LH" -> 7 [] tag = "BRF" -> 8
      [] tag = "BRH" -> 9 [] tag = "FNF" -> 10 [] tag = "FNH" -> 11
      [] tag = "end_of_record" -> 12

\* The line numbers the BRDA records of the <line> elements ls are to carry,
\* one for each branch the element was given, element by element.
RECURSIVE BranchLineNumbers(_)
BranchLineNumbers(ls) ==
    IF ls = <<>> THEN <<>>
    ELSE LET l == Head(ls)
             n == IF l.branch = "true" /\ l.tuple # <<>>
                  THEN (IF l.tuple[1] > l.tuple[2] THEN l.tuple[1]
                        ELSE l.tuple[2])
                  ELSE 0
         IN  [i \in 1..n |-> l.number] \o BranchLineNumbers(Tail(ls))

\* The records of a block are in order: SF, VER if any, the BRDA records
\* line by line as the lines were read, the FNL/FNA pairs, the DA records,
\* LF/LH, BRF/BRH, FNF/FNH, end_of_record.
InOrder(block, ls) ==
    /\ block[1][1] = "SF"
    /\ block[Len(block)][1] = "end_of_record"
    /\ \A i \in 1..(Len(block) - 1) :
           /\ Rank(block[i][1]) <= Rank(block[i + 1][1])
           /\ block[i][1] \in {"SF", "VER", "end_of_record"}
                  => Rank(block[i][1]) < Rank(block[i + 1][1])
           /\ block[i][1] = "FNL" => block[i + 1][1] = "FNA"
           /\ block[i + 1][1] = "FNA" => block[i][1] = "FNL"
    /\ [i \in 1..Len(Tagged(block, "BRDA")) |-> Tagged(block, "BRDA")[i][2]]
           = BranchLineNumbers(ls)

\* C20: whenever the run stands between two file entries, every whole block
\* of the output has its records in the fixed order; no BRDA record comes
\* after an FNL or a DA record of the block.
C20_RecordOrder ==
    pc = "files" =>
        \A k \in 1..Len(files) :
            files[k].returned => InOrder(files[k].block, files[k].lines)

\* A whole block is written that has branch records of two lines, a
\* function, line records and the three pairs of totals.
C20_Witness ==
    /\ pc = "files"
    /\ Len(files) = 1 /\ files[1].returned
    /\ Len(BranchLineNumbers(files[1].lines)) = 2 * MaxTotal
    /\ Tagged(files[1].block, "FNL") # <<>>
    /\ Len(Tagged(files[1].block, "DA")) = 2
    /\ Tagged(files[1].block, "BRF") # <<>>
    /\ Tagged(files[1].block, "FNF") # <<>>

-----------------------------------------------------------------------------
(* C21 *)

\* The block of the current file is written, its lines were read in strictly
\* increasing order with the derivation on, and it has no method records.
DerivedInOrder ==
    /\ pc = "record"
    /\ args.isPython
    /\ sourceCode # <<>>
    /\ methods = <<>>
    /\ Increasing

\* The position in `lines` of the line with number n.
PositionOf(n) == CHOOSE i \in 1..Len(lines) : lines[i].number = n

\* The function inner was declared while the scope of the function outer was
\* open: after outer's declaration and before the line that closes it.
DeclaredInside(inner, outer) ==
    /\ PositionOf(outer.start) < PositionOf(inner.start)
    /\ ClosedAt(PositionOf(outer.start)) > PositionOf(inner.start)

\* C21: for lines read in strictly increasing order, every derived function
\* has start <= end, and a function declared while the scope of another was
\* open lies within it: outer.start < inner.start and inner.end <= outer.end.
C21_NestedRanges ==
    /\ DerivedInOrder =>
           \A k \in 1..Len(EmittedFunctions) :
               EmittedFunctions[k].start <= EmittedFunctions[k].end
    /\ Derived =>
           \A i, o \in 1..Len(EmittedFunctions) :
               LET inner == EmittedFunctions[i]
                   outer == EmittedFunctions[o]
               IN  DeclaredInside(inner, outer) =>
                       /\ outer.start < inner.start
                       /\ inner.end <= outer.end

\* A function and one nested in it are written, the inner one ending before
\* the outer one.
C21_Witness ==
    /\ Derived
    /\ Len(EmittedFunctions) = 2
    /\ DeclaredInside(EmittedFunctions[1], EmittedFunctions[2])
    /\ EmittedFunctions[2].start < EmittedFunctions[1].start
    /\ EmittedFunctions[1].end < EmittedFunctions[2].end

-----------------------------------------------------------------------------
(* C22 *)

\* The open scope frames, from the bottom of objStack to its top and then
\* currentObj.
Frames == objStack \o currentObj

\* The indentation of the open frames increases strictly from the bottom of
\* the stack on; there is no frame on the stack when there is no current
\* one; no frame is open once the end of the file has been processed.
FramesNested ==
    /\ \A i, j \in 1..Len(Frames) :
           i < j => Frames[i].indent < Frames[j].indent
    /\ currentObj = <<>> => objStack = <<>>
    /\ pc = "record" => Frames = <<>>

\* The start lines of the open frames increase strictly from the bottom of
\* the stack on.
FramesByStart ==
    \A i, j \in 1..Len(Frames) : i < j => Frames[i].start < Frames[j].start

\* C22, as claimed: after every line processed, whatever the order of the
\* lines, the open frames have strictly increasing indentation and strictly
\* increasing start lines from the bottom of objStack to currentObj,
\* objStack is empty whenever currentObj is None, and no frame is open after
\* the end of the file.
C22_OpenFrames ==
    pc \in {"lines", "record"} => (FramesNested /\ FramesByStart)

\* C22, amended: the same, the start lines increasing strictly when the
\* lines are read in strictly increasing order.
C22_OpenFramesInOrder ==
    pc \in {"lines", "record"} =>
        /\ FramesNested
        /\ Increasing => FramesByStart

\* Two frames are open, one on the stack and the current one, after lines
\* read in increasing order.
C22_Witness ==
    /\ pc = "lines"
    /\ Increasing
    /\ Len(objStack) = 1 /\ currentObj # <<>>
    /\ objStack[1].indent < currentObj[1].indent
    /\ objStack[1].start < currentObj[1].start

====
